---- MODULE Spec2Model ----
(***************************************************************************)
(* Model of src/health_checker.py: graph construction from a relationship  *)
(* mapping, concurrent probing of every graph node under asyncio.gather,   *)
(* and aggregation of the probe results into a HealthReport.               *)
(*                                                                         *)
(* Strings that are compared for order (component identifiers) are modelled*)
(* as sequences of code points; Python's str comparison is StrLess.        *)
(* A relationship mapping (a Python dict, insertion ordered) is a sequence *)
(* of <<key, children>> items with distinct keys.                          *)
(*                                                                         *)
(* Time is logical and counted in milliseconds: code between two awaits    *)
(* takes no time, and the clock moves when the event loop serves the next  *)
(* sleep timer.  When timed is FALSE every sleep has length 0, which       *)
(* leaves the order of probe completions free and the clock at 0.          *)
(***************************************************************************)
EXTENDS Integers, Sequences, FiniteSets, TLC

VARIABLES clients, pc, relationships, G, tasks, probe, calls, report,
          timed, now, wake, start_time, elapsed

vars == <<clients, pc, relationships, G, tasks, probe, calls, report,
          timed, now, wake, start_time, elapsed>>

\* ---------------------------------------------------------------- bounds
NumIds == 2
MaxKeys == 1
MaxChildren == 1

\* Request slots: one per in-flight invocation of perform_health_check.
Runs == {1, 2}

\* ----------------------------------------------------------- identifiers
\* "A", "AB", "B", "BA"
SampleIds == << <<65>>, <<65, 66>>, <<66>>, <<66, 65>> >>

Ids == {SampleIds[i] : i \in 1..NumIds}

idA == <<65>>
idB == <<66>>
idC == <<67>>
idD == <<68>>
idX == <<88>>
idY == <<89>>

Range(s) == {s[i] : i \in DOMAIN s}

\* Python str "<": lexicographic on code points, a proper prefix is smaller.
RECURSIVE StrLess(_, _)
StrLess(s, t) ==
    IF s = <<>> THEN t # <<>>
    ELSE IF t = <<>> THEN FALSE
    ELSE IF Head(s) # Head(t) THEN Head(s) < Head(t)
    ELSE StrLess(Tail(s), Tail(t))

\* ---------------------------------------------------------------- inputs
ChildLists == UNION {[1..n -> Ids] : n \in 0..MaxChildren}

Mappings ==
    {m \in UNION {[1..n -> Ids \X ChildLists] : n \in 0..MaxKeys} :
        \A i, j \in DOMAIN m : i # j => m[i][1] # m[j][1]}

\* {"A": ["B","C"], "B": ["D"]}
ExampleMapping == << <<idA, <<idB, idC>>>>, <<idB, <<idD>>>> >>

\* {}
EmptyMapping == <<>>

\* {"X": ["Y"]}
StubMapping == << <<idX, <<idY>>>> >>

\* {"Y": ["X"]}
ReverseMapping == << <<idY, <<idX>>>> >>

\* {"X": ["X"]}
SelfLoopMapping == << <<idX, <<idX>>>> >>

\* {"X": ["Y","Y"]}
RepeatedChildMapping == << <<idX, <<idY, idY>>>> >>

\* {"X": ["X","Y"]}
KeyAsChildMapping == << <<idX, <<idX, idY>>>> >>

Scenarios ==
    { ExampleMapping, EmptyMapping, StubMapping, ReverseMapping,
      SelfLoopMapping, RepeatedChildMapping, KeyAsChildMapping }

Inputs == Mappings \cup Scenarios

\* {"X": ["Y"], "Y": ["X"]}
CycleMapping == << <<idX, <<idY>>>>, <<idY, <<idX>>>> >>

\* Mappings explored with the clock running.
TimedInputs ==
    { StubMapping, SelfLoopMapping, CycleMapping, KeyAsChildMapping,
      EmptyMapping }

\* Mappings over the same two identifiers, used when two requests overlap.
SharedInputs == {StubMapping, ReverseMapping, SelfLoopMapping, EmptyMapping}

Keys(rel) == {rel[i][1] : i \in DOMAIN rel}

Children(rel) == UNION {Range(rel[i][2]) : i \in DOMAIN rel}

\* ----------------------------------------------------------------- graph
\* nx.DiGraph(): insertion-ordered node dict and edge dict, both empty.
DiGraph == [node |-> <<>>, edge |-> <<>>]

add_node(g, n) ==
    IF n \in Range(g.node) THEN g
    ELSE [g EXCEPT !.node = Append(g.node, n)]

add_edge_multi(g, u, v) ==
    LET g2 == add_node(add_node(g, u), v)
    IN  [g2 EXCEPT !.edge = Append(g2.edge, <<u, v>>)]

add_edge_no_loop(g, u, v) ==
    IF u = v THEN g
    ELSE LET g2 == add_node(add_node(g, u), v)
         IN  IF <<u, v>> \in Range(g2.edge) THEN g2
             ELSE [g2 EXCEPT !.edge = Append(g2.edge, <<u, v>>)]

\* G.add_edge(u, v): both endpoints become nodes, _adj[u][v] is (re)assigned.
add_edge(g, u, v) ==
    LET g2 == add_node(add_node(g, u), v)
    IN  IF <<u, v>> \in Range(g2.edge) THEN g2
        ELSE [g2 EXCEPT !.edge = Append(g2.edge, <<u, v>>)]

RECURSIVE AddChildren(_, _, _)
AddChildren(g, parent, children) ==
    IF children = <<>> THEN g
    ELSE AddChildren(add_edge(g, parent, Head(children)), parent, Tail(children))

RECURSIVE AddItems(_, _)
AddItems(g, rel) ==
    IF rel = <<>> THEN g
    ELSE AddItems(AddChildren(g, Head(rel)[1], Head(rel)[2]), Tail(rel))

create_dag_from_json(rel) == AddItems(DiGraph, rel)

all_nodes_parents(g) == {g.edge[i][1] : i \in DOMAIN g.edge}

\* all_nodes = set(G.nodes())
all_nodes(g) == Range(g.node)

\* Iteration orders of a Python set: any enumeration without repetition.
IterationOrders(S) ==
    {s \in [1..Cardinality(S) -> S] : \A i, j \in DOMAIN s : i # j => s[i] # s[j]}

RECURSIVE EdgeEndpoints(_)
EdgeEndpoints(edges) ==
    IF edges = <<>> THEN <<>>
    ELSE <<Head(edges)[1], Head(edges)[2]>> \o EdgeEndpoints(Tail(edges))

CreateTasksPerEdge(g) == {EdgeEndpoints(g.edge)}

\* tasks = [check_component_health(node) for node in all_nodes]
CreateTasks(g) == IterationOrders(all_nodes(g))

\* ----------------------------------------------------------------- probe
LATENCY_MS == 50

\* Values of random.randint(LATENCY_MS, LATENCY_MS * 4): both ends and one
\* value in between.
LatencySamples == {LATENCY_MS, LATENCY_MS * 2, LATENCY_MS * 4}

None == "None"

NoResult == <<>>

Draws == {"fail", "ok"}

\* Body of check_component_health after the sleep; draw is the outcome of
\* random.random() < FAILURE_RATE.
check_component_health(node_id, draw) ==
    IF draw = "fail"
    THEN <<node_id, "DOWN", "Service unreachable (Simulated Timeout)">>
    ELSE <<node_id, "UP", None>>

\* ----------------------------------------------------------- aggregation
ComponentDetailRawError(node, status, error) ==
    [component |-> node, status |-> status, details |-> error]

\* ComponentDetail(component=node, status=status,
\*                 details=error if error else "OK")
ComponentDetail(node, status, error) ==
    [component |-> node, status |-> status,
     details |-> IF error # None THEN error ELSE "OK"]

InitialStatusDown == "DOWN"

InitialStatus == "UP"

FoldInit ==
    [component_details |-> <<>>, failed_components |-> <<>>,
     system_status |-> InitialStatus]

FoldStepLastWins(acc, res) ==
    [component_details |->
        Append(acc.component_details, ComponentDetail(res[1], res[2], res[3])),
     failed_components |->
        IF res[2] = "DOWN" THEN Append(acc.failed_components, res[1])
        ELSE acc.failed_components,
     system_status |-> res[2]]

FoldStepNoFlag(acc, res) ==
    [component_details |->
        Append(acc.component_details, ComponentDetail(res[1], res[2], res[3])),
     failed_components |->
        IF res[2] = "DOWN" THEN Append(acc.failed_components, res[1])
        ELSE acc.failed_components,
     system_status |->
        IF res[2] = "DOWN" /\ acc.component_details = <<>> THEN "DOWN"
        ELSE acc.system_status]

FoldStepFailedAll(acc, res) ==
    [component_details |->
        Append(acc.component_details, ComponentDetail(res[1], res[2], res[3])),
     failed_components |-> Append(acc.failed_components, res[1]),
     system_status |->
        IF res[2] = "DOWN" THEN "DOWN" ELSE acc.system_status]

\* One iteration of "for node, status, error in raw_results".
FoldStep(acc, res) ==
    [component_details |->
        Append(acc.component_details, ComponentDetail(res[1], res[2], res[3])),
     failed_components |->
        IF res[2] = "DOWN" THEN Append(acc.failed_components, res[1])
        ELSE acc.failed_components,
     system_status |->
        IF res[2] = "DOWN" THEN "DOWN" ELSE acc.system_status]

RECURSIVE Fold(_, _)
Fold(acc, results) ==
    IF results = <<>> THEN acc
    ELSE Fold(FoldStep(acc, Head(results)), Tail(results))

\* Stable insertion by key x.component.
RECURSIVE InsertSorted(_, _)
InsertSorted(d, s) ==
    IF s = <<>> THEN <<d>>
    ELSE IF StrLess(d.component, Head(s).component) THEN <<d>> \o s
    ELSE <<Head(s)>> \o InsertSorted(d, Tail(s))

RECURSIVE SortedOf(_)
SortedOf(s) ==
    IF s = <<>> THEN <<>>
    ELSE InsertSorted(s[Len(s)], SortedOf(SubSeq(s, 1, Len(s) - 1)))

SortUnsorted(s) == s

\* component_details.sort(key=lambda x: x.component)
SortByComponent(s) == SortedOf(s)

NoReport ==
    [system_status |-> "NONE", component_details |-> <<>>,
     failed_components |-> <<>>]

\* Steps 4 to 7 of perform_health_check, applied to gather's result list.
Aggregate(raw_results) ==
    LET acc == Fold(FoldInit, raw_results)
    IN  [system_status |-> acc.system_status,
         component_details |-> SortByComponent(acc.component_details),
         failed_components |-> acc.failed_components]

\* ------------------------------------------------------------------ state
NewTask == [state |-> "created", result |-> NoResult]

InitWith(cs, t) ==
    /\ clients = cs
    /\ timed = t
    /\ now = 0
    /\ wake = [r \in Runs |-> <<>>]
    /\ start_time = [r \in Runs |-> 0]
    /\ elapsed = [r \in Runs |-> 0]
    /\ pc = [r \in Runs |-> "idle"]
    /\ relationships = [r \in Runs |-> EmptyMapping]
    /\ G = [r \in Runs |-> DiGraph]
    /\ tasks = [r \in Runs |-> <<>>]
    /\ probe = [r \in Runs |-> <<>>]
    /\ calls = [r \in Runs |-> <<>>]
    /\ report = [r \in Runs |-> NoReport]

Init == InitWith({1}, FALSE)

InitTwo == InitWith({1, 2}, FALSE)

InitTimed == InitWith({1}, TRUE)

Requests ==
    IF timed THEN TimedInputs
    ELSE IF Cardinality(clients) = 1 THEN Inputs ELSE SharedInputs

\* Lengths the sleep of line 41 can have.
Latencies == IF timed THEN LatencySamples ELSE {0}

WakeTimeSequential(r, i, lat) ==
    (IF i = 1 THEN now ELSE wake[r][i - 1]) + lat

\* asyncio.sleep(lat) called at the current time: the timer's deadline.
WakeTime(r, i, lat) == now + lat

TimerDueStrict(r, i) ==
    \A r2 \in Runs : \A j \in DOMAIN probe[r2] :
        (probe[r2][j].state = "sleeping" /\ <<r2, j>> # <<r, i>>)
            => wake[r][i] < wake[r2][j]

\* The event loop serves the sleep timer with the earliest deadline.
TimerDue(r, i) ==
    \A r2 \in Runs : \A j \in DOMAIN probe[r2] :
        probe[r2][j].state = "sleeping" => wake[r][i] <= wake[r2][j]

Later(a, b) == IF a >= b THEN a ELSE b

AllStarted(r) == \A j \in DOMAIN probe[r] : probe[r][j].state # "created"

GatherDoneLax(r) ==
    \A i \in DOMAIN probe[r] : probe[r][i].state \in {"done", "raised"}

\* gather's outer future holds a result list: every child returned.
GatherDone(r) == \A i \in DOMAIN probe[r] : probe[r][i].state = "done"

\* gather's outer future holds an exception: some child raised.
GatherFailed(r) == \E i \in DOMAIN probe[r] : probe[r][i].state = "raised"

DoneRuns(n) ==
    {r2 \in Runs : \E j \in DOMAIN probe[r2] :
        tasks[r2][j] = n /\ probe[r2][j].state = "done"}

FirstDone(n) ==
    LET r2 == CHOOSE x \in DoneRuns(n) : \A y \in DoneRuns(n) : x <= y
        j  == CHOOSE k \in DOMAIN probe[r2] : tasks[r2][k] = n
    IN  probe[r2][j].result

raw_results_shared(r) ==
    [i \in DOMAIN probe[r] |->
        IF DoneRuns(tasks[r][i]) = {} THEN <<tasks[r][i], "EXCEPTION", None>>
        ELSE FirstDone(tasks[r][i])]

CompletionRank(r, i) ==
    1 + Cardinality({j \in DOMAIN probe[r] :
            \/ wake[r][j] < wake[r][i]
            \/ wake[r][j] = wake[r][i] /\ j < i})

raw_results_as_completed(r) ==
    [k \in DOMAIN probe[r] |->
        LET i == CHOOSE j \in DOMAIN probe[r] : CompletionRank(r, j) = k
        IN  IF probe[r][i].state = "done" THEN probe[r][i].result
            ELSE <<tasks[r][i], "EXCEPTION", None>>]

\* The list gather hands back, in the order of the awaitables; a child that
\* raised has no tuple (gather hands back a list only if none raised).
raw_results(r) ==
    [i \in DOMAIN probe[r] |->
        IF probe[r][i].state = "done" THEN probe[r][i].result
        ELSE <<tasks[r][i], "EXCEPTION", None>>]

\* ---------------------------------------------------------------- actions
\* perform_health_check from entry to "await asyncio.gather(*tasks)"; with
\* no tasks gather's future is already done and the handler runs through.
Request(r) ==
    /\ r \in clients
    /\ pc[r] = "idle"
    /\ \E rel \in Requests :
         LET g == create_dag_from_json(rel) IN
         \E ts \in CreateTasks(g) :
            /\ relationships' = [relationships EXCEPT ![r] = rel]
            /\ G' = [G EXCEPT ![r] = g]
            /\ tasks' = [tasks EXCEPT ![r] = ts]
            /\ probe' = [probe EXCEPT ![r] = [i \in DOMAIN ts |-> NewTask]]
            /\ wake' = [wake EXCEPT ![r] = [i \in DOMAIN ts |-> 0]]
            /\ start_time' = [start_time EXCEPT ![r] = now]
            /\ IF ts = <<>>
               THEN /\ pc' = [pc EXCEPT ![r] = "returned"]
                    /\ report' = [report EXCEPT ![r] = Aggregate(<<>>)]
                    /\ elapsed' = [elapsed EXCEPT ![r] = now - now]
               ELSE /\ pc' = [pc EXCEPT ![r] = "awaiting"]
                    /\ UNCHANGED <<report, elapsed>>
    /\ UNCHANGED <<clients, calls, timed, now>>

\* First step of a probe task: runs up to "await asyncio.sleep(...)".
\* The event loop runs the tasks gather scheduled in FIFO order.
ProbeStart(r, i) ==
    /\ i \in DOMAIN probe[r]
    /\ probe[r][i].state = "created"
    /\ \A j \in 1..(i - 1) : probe[r][j].state # "created"
    /\ probe' = [probe EXCEPT ![r][i].state = "sleeping"]
    /\ calls' = [calls EXCEPT ![r] = Append(calls[r], tasks[r][i])]
    /\ \E lat \in Latencies :
          wake' = [wake EXCEPT ![r][i] = WakeTime(r, i, lat)]
    /\ UNCHANGED <<clients, pc, relationships, G, tasks, report,
                   timed, now, start_time, elapsed>>

ProbeReturnInOrder(r, i, draw) ==
    /\ i \in DOMAIN probe[r]
    /\ probe[r][i].state = "sleeping"
    /\ AllStarted(r)
    /\ \A j \in 1..(i - 1) : probe[r][j].state = "done"
    /\ TimerDue(r, i)
    /\ now' = Later(now, wake[r][i])
    /\ probe' = [probe EXCEPT ![r][i] =
                    [state |-> "done",
                     result |-> check_component_health(tasks[r][i], draw)]]
    /\ UNCHANGED <<clients, pc, relationships, G, tasks, calls, report,
                   timed, wake, start_time, elapsed>>

\* The sleep elapses and the probe returns its tuple.  Timers are served
\* only after every task scheduled by gather has had its first step.
ProbeReturn(r, i, draw) ==
    /\ i \in DOMAIN probe[r]
    /\ probe[r][i].state = "sleeping"
    /\ AllStarted(r)
    /\ TimerDue(r, i)
    /\ now' = Later(now, wake[r][i])
    /\ probe' = [probe EXCEPT ![r][i] =
                    [state |-> "done",
                     result |-> check_component_health(tasks[r][i], draw)]]
    /\ UNCHANGED <<clients, pc, relationships, G, tasks, calls, report,
                   timed, wake, start_time, elapsed>>

\* The probe ends with an exception instead of a tuple.
ProbeRaise(r, i) ==
    /\ i \in DOMAIN probe[r]
    /\ probe[r][i].state = "sleeping"
    /\ AllStarted(r)
    /\ TimerDue(r, i)
    /\ now' = Later(now, wake[r][i])
    /\ probe' = [probe EXCEPT ![r][i].state = "raised"]
    /\ UNCHANGED <<clients, pc, relationships, G, tasks, calls, report,
                   timed, wake, start_time, elapsed>>

\* gather delivers the result list; the handler runs to "return report".
GatherReturn(r) ==
    /\ pc[r] = "awaiting"
    /\ GatherDone(r)
    /\ pc' = [pc EXCEPT ![r] = "returned"]
    /\ report' = [report EXCEPT ![r] = Aggregate(raw_results(r))]
    /\ elapsed' = [elapsed EXCEPT ![r] = now - start_time[r]]
    /\ UNCHANGED <<clients, relationships, G, tasks, probe, calls,
                   timed, now, wake, start_time>>

\* gather propagates the first exception; the handler raises.
GatherRaise(r) ==
    /\ pc[r] = "awaiting"
    /\ GatherFailed(r)
    /\ pc' = [pc EXCEPT ![r] = "failed"]
    /\ UNCHANGED <<clients, relationships, G, tasks, probe, calls, report,
                   timed, now, wake, start_time, elapsed>>

Next ==
    \E r \in Runs :
        \/ Request(r)
        \/ \E i \in DOMAIN probe[r] : ProbeStart(r, i)
        \/ \E i \in DOMAIN probe[r], draw \in Draws : ProbeReturn(r, i, draw)
        \/ \E i \in DOMAIN probe[r] : ProbeRaise(r, i)
        \/ GatherReturn(r)
        \/ GatherRaise(r)

Spec == Init /\ [][Next]_vars

SpecTwo == InitTwo /\ [][Next]_vars

SpecTimed == InitTimed /\ [][Next]_vars

\* The event loop runs every ready callback and every sleep elapses: a
\* created task gets its first step, a sleeping probe completes, and a
\* handler whose gather is settled is resumed.
Fairness ==
    \A r \in Runs :
        /\ WF_vars(\E i \in DOMAIN probe[r] : ProbeStart(r, i))
        /\ WF_vars(\E i \in DOMAIN probe[r] :
                      \/ \E draw \in Draws : ProbeReturn(r, i, draw)
                      \/ ProbeRaise(r, i))
        /\ WF_vars(GatherReturn(r) \/ GatherRaise(r))

FairSpec == SpecTimed /\ Fairness

\* ------------------------------------------------------------ properties
Returned(r) == pc[r] = "returned"

Components(r) ==
    [i \in DOMAIN report[r].component_details |->
        report[r].component_details[i].component]

IsDown(d) == d.status = "DOWN"

DownComponents(r) ==
    LET ds == SelectSeq(report[r].component_details, IsDown)
    IN  [i \in DOMAIN ds |-> ds[i].component]

Occurrences(s, x) == Cardinality({i \in DOMAIN s : s[i] = x})

\* C1: in every returned report failed_components is exactly the
\* subsequence of component_details with status DOWN, in the same order.
C1_FailedIsSubsequence ==
    \A r \in Runs : Returned(r) => report[r].failed_components = DownComponents(r)

\* C2: the node set of the built graph is the union of all keys and all
\* child-list elements of the mapping, also when a key has no children.
C2_NodeSetIsKeysAndChildren ==
    \A r \in Runs :
        pc[r] # "idle" =>
            all_nodes(G[r]) = Keys(relationships[r]) \cup Children(relationships[r])

\* C3: a returned report has as many component_details entries as the
\* graph has nodes, and every graph node is the component of exactly one.
C3_OneEntryPerNode ==
    \A r \in Runs :
        Returned(r) =>
            /\ Len(report[r].component_details) = Cardinality(Range(G[r].node))
            /\ Range(Components(r)) = Range(G[r].node)
            /\ \A n \in Range(G[r].node) : Occurrences(Components(r), n) = 1

C3_Witness ==
    \E r \in Runs :
        /\ Returned(r)
        /\ Len(report[r].component_details) = 4
        /\ Len(report[r].failed_components) = 2
        /\ tasks[r] # Components(r)

\* C4: in a returned report system_status is "DOWN" exactly when
\* failed_components is non-empty, and "UP" otherwise.
C4_StatusIffFailed ==
    \A r \in Runs :
        Returned(r) =>
            /\ report[r].system_status \in {"UP", "DOWN"}
            /\ report[r].system_status = "DOWN" <=> report[r].failed_components # <<>>

C4_Witness ==
    \E r \in Runs :
        /\ Returned(r)
        /\ report[r].system_status = "DOWN"
        /\ Len(report[r].failed_components) = 1
        /\ Len(report[r].component_details) >= 2
        /\ report[r].failed_components[1] # tasks[r][1]

\* C5: component_details of a returned report is strictly ascending by
\* component identifier; {"A": ["B","C"], "B": ["D"]} yields A, B, C, D.
C5_SortedAscending ==
    \A r \in Runs :
        Returned(r) =>
            /\ \A i \in 1..(Len(report[r].component_details) - 1) :
                  StrLess(Components(r)[i], Components(r)[i + 1])
            /\ relationships[r] = ExampleMapping =>
                  Components(r) = <<idA, idB, idC, idD>>

C5_Witness ==
    \E r \in Runs :
        /\ Returned(r)
        /\ relationships[r] = ExampleMapping
        /\ tasks[r] = <<idD, idB, idC, idA>>
        /\ calls[r] = tasks[r]

\* C6: once a probe of a run has raised, the run never returns a report:
\* it is still awaiting or has failed, and no report exists.
C6_FaultIsFatal ==
    \A r \in Runs :
        /\ GatherFailed(r) => pc[r] \in {"awaiting", "failed"} /\ report[r] = NoReport
        /\ pc[r] = "failed" => GatherFailed(r) /\ report[r] = NoReport

C6_Witness ==
    \E r \in Runs :
        /\ pc[r] = "failed"
        /\ \E i, j, k \in DOMAIN probe[r] :
              /\ probe[r][i].state = "raised"
              /\ probe[r][j].state = "done" /\ probe[r][j].result[2] = "UP"
              /\ probe[r][k].state = "done" /\ probe[r][k].result[2] = "DOWN"

\* C7: one probe is launched per distinct node identifier, each probe body
\* is entered at most once, and after a return every node was probed once.
C7_ProbedOnce ==
    \A r \in Runs :
        /\ Range(tasks[r]) \subseteq Range(G[r].node)
        /\ pc[r] # "idle" =>
              \A n \in Range(G[r].node) : Occurrences(tasks[r], n) = 1
        /\ \A n \in Range(G[r].node) : Occurrences(calls[r], n) <= 1
        /\ Range(calls[r]) \subseteq Range(G[r].node)
        /\ pc[r] \in {"returned", "failed"} =>
              \A n \in Range(G[r].node) : Occurrences(calls[r], n) = 1

C7_Witness ==
    \E r \in Runs :
        /\ pc[r] \in {"returned", "failed"}
        /\ \E i \in DOMAIN relationships[r] :
              /\ relationships[r][i][1] \in Range(relationships[r][i][2])
              /\ Len(relationships[r][i][2]) = 2
        /\ \E i \in DOMAIN probe[r] :
              \/ probe[r][i].state = "raised"
              \/ probe[r][i].state = "done" /\ probe[r][i].result[2] = "DOWN"

\* C8: the empty mapping launches no probes and returns system_status
\* "UP" with empty component_details and empty failed_components.
C8_EmptyMappingIsUp ==
    \A r \in Runs :
        (pc[r] # "idle" /\ relationships[r] = EmptyMapping) =>
            /\ pc[r] = "returned"
            /\ tasks[r] = <<>>
            /\ calls[r] = <<>>
            /\ report[r] = [system_status |-> "UP", component_details |-> <<>>,
                            failed_components |-> <<>>]

C8_Witness == \E r \in Runs : Returned(r) /\ relationships[r] = EmptyMapping

ResultMap(r) ==
    {<<probe[r][i].result[1], probe[r][i].result[2]>> : i \in DOMAIN probe[r]}

\* C9: system_status is a function of the node-to-status map of the probe
\* results: DOWN iff some result is DOWN, and two returned runs with the
\* same map have the same system_status.
C9_StatusFromResultsOnly ==
    /\ \A r \in Runs :
          Returned(r) =>
              (report[r].system_status = "DOWN"
                  <=> \E n \in Range(G[r].node) : <<n, "DOWN">> \in ResultMap(r))
    /\ \A r1, r2 \in Runs :
          (Returned(r1) /\ Returned(r2) /\ ResultMap(r1) = ResultMap(r2)) =>
              report[r1].system_status = report[r2].system_status

C9_Witness ==
    /\ Returned(1) /\ Returned(2)
    /\ ResultMap(1) = ResultMap(2)
    /\ Range(G[1].edge) # Range(G[2].edge)
    /\ tasks[1] # tasks[2]
    /\ report[1].system_status = "DOWN"
    /\ Len(report[1].component_details) = 2
    /\ Len(report[1].failed_components) = 1

RECURSIVE Dedup(_)
Dedup(s) ==
    IF s = <<>> THEN <<>>
    ELSE LET d == Dedup(SubSeq(s, 1, Len(s) - 1))
         IN  IF s[Len(s)] \in Range(d) THEN d ELSE Append(d, s[Len(s)])

DedupChildren(rel) == [i \in DOMAIN rel |-> <<rel[i][1], Dedup(rel[i][2])>>]

\* C10: adding the mapping's edges again to the built graph changes
\* nothing, no edge is held twice, and the mapping with repeated children
\* removed builds a graph with the same node set and edge set.
C10_BuildIdempotent ==
    \A r \in Runs :
        pc[r] # "idle" =>
            /\ AddItems(G[r], relationships[r]) = G[r]
            /\ \A e \in Range(G[r].edge) : Occurrences(G[r].edge, e) = 1
            /\ LET g1 == create_dag_from_json(DedupChildren(relationships[r]))
               IN  /\ Range(g1.node) = Range(G[r].node)
                   /\ Range(g1.edge) = Range(G[r].edge)
                   /\ Len(g1.edge) = Len(G[r].edge)

C10_Witness ==
    \E r \in Runs :
        /\ pc[r] # "idle"
        /\ \E i \in DOMAIN relationships[r] :
              /\ Len(relationships[r][i][2]) = 2
              /\ relationships[r][i][2][1] = relationships[r][i][2][2]
              /\ relationships[r][i][2][1] # relationships[r][i][1]

Pending(r) ==
    {i \in DOMAIN probe[r] : probe[r][i].state \in {"created", "sleeping"}}

\* C11: when the outcome of a run (report or fatal error) has been
\* delivered, no launched probe of that run is still pending.
C11_NoPendingAtOutcome ==
    \A r \in Runs : pc[r] \in {"returned", "failed"} => Pending(r) = {}

TaskOf(r, n) == CHOOSE i \in DOMAIN tasks[r] : tasks[r][i] = n

\* C12: probing is flat over the node set: every graph node has a task,
\* a created task can take its first step as soon as the earlier ones have,
\* and a sleeping probe can complete with either status whatever the state
\* or result of the other probes, so that any completion order can occur.
C12_FlatProbing ==
    \A r \in Runs :
        pc[r] # "idle" =>
            /\ Range(tasks[r]) = Range(G[r].node)
            /\ \A i \in DOMAIN probe[r] :
                  /\ (/\ probe[r][i].state = "created"
                      /\ \A j \in 1..(i - 1) : probe[r][j].state # "created")
                        => ENABLED ProbeStart(r, i)
                  /\ (probe[r][i].state = "sleeping" /\ AllStarted(r))
                        => \A draw \in Draws : ENABLED ProbeReturn(r, i, draw)

C12_Witness ==
    \E r \in Runs : \E e \in Range(G[r].edge) :
        /\ e[1] # e[2]
        /\ probe[r][TaskOf(r, e[1])].state = "done"
        /\ probe[r][TaskOf(r, e[1])].result[2] = "DOWN"
        /\ probe[r][TaskOf(r, e[2])].state = "sleeping"
        /\ TaskOf(r, e[2]) < TaskOf(r, e[1])

Successors(E, S) == {e[2] : e \in {x \in E : x[1] \in S}}

RECURSIVE Descendants(_, _, _)
Descendants(E, S, n) ==
    IF n = 0 THEN {}
    ELSE Successors(E, S) \cup Descendants(E, Successors(E, S), n - 1)

Pairs(rel) ==
    UNION {{<<rel[i][1], rel[i][2][k]>> : k \in DOMAIN rel[i][2]} : i \in DOMAIN rel}

\* The mapping has a self-loop or a longer cycle.
Cyclic(rel) ==
    \E v \in Keys(rel) : v \in Descendants(Pairs(rel), {v}, Cardinality(Keys(rel)))

Terminated(r) == pc[r] \in {"returned", "failed"}

\* C13: a mapping with a self-loop or a cycle is built into a graph that
\* holds exactly its pairs as edges, its run terminates, and a returned
\* report lists each distinct node exactly once, in ascending order.
C13_CyclicTolerated ==
    /\ [](\A r \in Runs :
            (pc[r] # "idle" /\ Cyclic(relationships[r])) =>
                /\ Range(G[r].edge) = Pairs(relationships[r])
                /\ Range(G[r].node) =
                      Keys(relationships[r]) \cup Children(relationships[r])
                /\ Range(tasks[r]) = Range(G[r].node)
                /\ Returned(r) =>
                      /\ Len(Components(r)) = Cardinality(Range(G[r].node))
                      /\ Range(Components(r)) = Range(G[r].node))
    /\ \A r \in Runs :
          (pc[r] = "awaiting" /\ Cyclic(relationships[r])) ~> Terminated(r)

C13_Witness ==
    \E r \in Runs :
        /\ Returned(r)
        /\ relationships[r] = CycleMapping
        /\ Components(r) = <<idX, idY>>
        /\ report[r].system_status = "DOWN"

DownSet(r) ==
    {report[r].component_details[i].component :
        i \in {k \in DOMAIN report[r].component_details :
                  report[r].component_details[k].status = "DOWN"}}

\* C14: in a returned report the identifiers in failed_components are,
\* as a set, the components whose entry has status DOWN, and none of them
\* occurs twice.
C14_FailedSetIsDownSet ==
    \A r \in Runs :
        Returned(r) =>
            /\ Range(report[r].failed_components) = DownSet(r)
            /\ \A n \in Range(report[r].failed_components) :
                  Occurrences(report[r].failed_components, n) = 1

C14_Witness ==
    \E r \in Runs :
        /\ Returned(r)
        /\ Len(report[r].component_details) = 4
        /\ Len(report[r].failed_components) = 2
        /\ report[r].failed_components # DownComponents(r)

OwnStatus(r, n) == probe[r][TaskOf(r, n)].result[2]

\* C15: with two runs interleaved, a returned report lists exactly the
\* nodes of its own run's graph, and the status of each entry is the
\* result of that run's own probe of that node.
C15_RunsDoNotInterfere ==
    \A r \in Runs :
        Returned(r) =>
            /\ G[r] = create_dag_from_json(relationships[r])
            /\ Range(Components(r)) = Range(G[r].node)
            /\ \A k \in DOMAIN report[r].component_details :
                  report[r].component_details[k].status =
                      OwnStatus(r, report[r].component_details[k].component)
            /\ \A n \in Range(G[r].node) :
                  n \in Range(report[r].failed_components)
                      <=> OwnStatus(r, n) = "DOWN"

C15_Witness ==
    /\ Returned(1) /\ Returned(2)
    /\ relationships[1] # relationships[2]
    /\ idX \in Range(G[1].node) \cap Range(G[2].node)
    /\ OwnStatus(1, idX) = "DOWN"
    /\ OwnStatus(2, idX) = "UP"
    /\ report[2].system_status = "UP"

\* C16: under fair scheduling every run that is awaiting its probes
\* terminates with a report or a fatal error, every launched probe
\* completes, and no sleep is longer than LATENCY_MS * 4.
C16_RunTerminates ==
    /\ \A r \in Runs : (pc[r] = "awaiting") ~> Terminated(r)
    /\ \A r \in Runs : (pc[r] = "awaiting") ~> (Pending(r) = {})
    /\ [](\A r \in Runs : \A i \in DOMAIN probe[r] :
            probe[r][i].state # "created" =>
                /\ wake[r][i] - start_time[r] >= LATENCY_MS
                /\ wake[r][i] - start_time[r] <= LATENCY_MS * 4)

C16_Witness ==
    \E r \in Runs :
        /\ Terminated(r)
        /\ Pending(r) = {}
        /\ Len(tasks[r]) = 2
        /\ wake[r][1] = wake[r][2]
        /\ now = start_time[r] + LATENCY_MS * 4

SleepOf(r, i) == wake[r][i] - start_time[r]

LongestSleep(r) ==
    CHOOSE m \in {SleepOf(r, i) : i \in DOMAIN wake[r]} :
        \A i \in DOMAIN wake[r] : SleepOf(r, i) <= m

RECURSIVE SumOfSleeps(_, _)
SumOfSleeps(r, n) == IF n = 0 THEN 0 ELSE SleepOf(r, n) + SumOfSleeps(r, n - 1)

\* C17: every probe of a run has been started before any of them
\* completes, every sleep runs from the start of the probing phase, and the
\* elapsed time of a returned run is the longest single sleep: at most
\* LATENCY_MS * 4, and less than the sum of the sleeps when there are
\* several probes.
C17_FanOut ==
    \A r \in Runs :
        /\ (\E i \in DOMAIN probe[r] : probe[r][i].state \in {"done", "raised"})
              => AllStarted(r)
        /\ \A i \in DOMAIN probe[r] :
              probe[r][i].state # "created" => SleepOf(r, i) <= LATENCY_MS * 4
        /\ (Returned(r) /\ tasks[r] # <<>>) =>
              /\ elapsed[r] = LongestSleep(r)
              /\ elapsed[r] <= LATENCY_MS * 4
              /\ Len(tasks[r]) >= 2 => elapsed[r] < SumOfSleeps(r, Len(tasks[r]))

C17_Witness ==
    \E r \in Runs :
        /\ Returned(r)
        /\ Len(tasks[r]) = 2
        /\ SleepOf(r, 1) = LATENCY_MS * 4
        /\ SleepOf(r, 2) = LATENCY_MS * 4
        /\ elapsed[r] = LATENCY_MS * 4

RECURSIVE DownInLaunchOrder(_, _)
DownInLaunchOrder(r, n) ==
    IF n = 0 THEN <<>>
    ELSE IF probe[r][n].result[2] = "DOWN"
         THEN Append(DownInLaunchOrder(r, n - 1), tasks[r][n])
         ELSE DownInLaunchOrder(r, n - 1)

\* C18: a returned report is fixed by the launch order and the per-node
\* outcomes alone: failed_components lists the DOWN nodes in launch order,
\* each entry carries its own task's result, the entries are ascending and
\* system_status is DOWN iff some outcome is DOWN, in whatever order the
\* probes completed.
C18_ReportFromLaunchOrder ==
    \A r \in Runs :
        Returned(r) =>
            /\ report[r].failed_components = DownInLaunchOrder(r, Len(tasks[r]))
            /\ Len(report[r].component_details) = Len(tasks[r])
            /\ \A k \in DOMAIN report[r].component_details :
                  LET d == report[r].component_details[k]
                      res == probe[r][TaskOf(r, d.component)].result
                  IN  d = ComponentDetail(res[1], res[2], res[3])
            /\ \A k \in 1..(Len(report[r].component_details) - 1) :
                  StrLess(Components(r)[k], Components(r)[k + 1])
            /\ report[r].system_status =
                  (IF \E i \in DOMAIN probe[r] : probe[r][i].result[2] = "DOWN"
                   THEN "DOWN" ELSE "UP")

C18_Witness ==
    \E r \in Runs :
        /\ Returned(r)
        /\ tasks[r] = <<idY, idX>>
        /\ wake[r][2] < wake[r][1]
        /\ report[r].failed_components = <<idY, idX>>

\* C19: every entry of a returned report has status "UP" or "DOWN", has
\* details "OK" exactly when it is UP, and has the simulated-timeout text
\* exactly when it is DOWN.
C19_DetailsMatchStatus ==
    \A r \in Runs :
        Returned(r) =>
            \A k \in DOMAIN report[r].component_details :
                LET d == report[r].component_details[k]
                IN  /\ d.status \in {"UP", "DOWN"}
                    /\ d.details = "OK" <=> d.status = "UP"
                    /\ d.details = "Service unreachable (Simulated Timeout)"
                          <=> d.status = "DOWN"

C19_Witness ==
    \E r \in Runs :
        /\ Returned(r)
        /\ \E j, k \in DOMAIN report[r].component_details :
              /\ report[r].component_details[j].details = "OK"
              /\ report[r].component_details[k].status = "DOWN"

====
